---- MODULE Spec2Model ----
(***************************************************************************)
(* The two example clients of the Bedrock OpenAI proxy:                    *)
(*   examples/python_sync_client.py   BedrockOpenAIClientSync and main     *)
(*   examples/python_httpx_client.py  BedrockOpenAIClient and async main   *)
(* A string is a sequence of tokens; the token "/" is the slash character  *)
(* and every other token is a slash-free piece of text.  A temperature is  *)
(* written in tenths (7 for 0.7).  Time is counted in the unit of the      *)
(* timeout arguments (seconds).                                            *)
(***************************************************************************)
EXTENDS Integers, Sequences, FiniteSets, TLC

VARIABLES
    ctor,          \* the arguments the clients were constructed with
    clients,       \* kind -> the client object (base_url, headers), or NoClient
    calls,         \* call slot -> the activation of chat_completion / list_models
    open_clients,  \* number of httpx.Client / httpx.AsyncClient objects now open
    driver         \* the state of main(), DriverOff when the clients are used directly

vars == <<ctor, clients, calls, open_clients, driver>>

----------------------------------------------------------------------------
(* Bounds of the model *)

MaxUrlLen == 3
MaxMessages == 2
TickStep == 15

(* Timeouts passed to httpx *)

SyncChatTimeout == 30
SyncModelsTimeout == 10
AsyncChatTimeout == 30
AsyncModelsTimeout == 10

----------------------------------------------------------------------------
(* Input domains *)

Kinds == {"sync", "async"}
CallIds == {1, 2, 3, 4}

UrlChars == {"a", "/"}
BaseUrls == UNION {[1..n -> UrlChars] : n \in 0..MaxUrlLen}

PLACEHOLDER == "bedrock-api-key-YmVkcm9jay5hbWF6b25hd3MuY29tLz9BY3Rpb249Q2FsbFdpdGhCZWFyZXJUb2tlbiZYLUFte......"
Tokens == {"bedrock-api-key-QUJD", "bedrock-api-key-WFla"}

Message == {[role |-> "system", content |-> "s"], [role |-> "user", content |-> "u"]}
MessageLists == UNION {[1..n -> Message] : n \in 0..MaxMessages}
Models == {"gpt-3.5-turbo", "gpt-4"}
Temperatures == {7, 5}
MaxTokens == {1000, 300}

Statuses == {200, 299, 300, 401}
Texts == {<<>>,
          <<"{", "choices", "usage", "}">>,
          <<"{", "choices", "}">>,
          <<"{", "choices">>}

NoClient == [constructed |-> FALSE]
NoBody == <<>>
NoResponse == [received |-> FALSE]
NoOutcome == [kind |-> "none"]
NoArgs == <<>>

----------------------------------------------------------------------------
(* __init__ of the two clients *)

\* Mutant of rstrip: removes one trailing character only (str.removesuffix).
removesuffix(s, ch) ==
    IF s # <<>> /\ s[Len(s)] = ch THEN SubSeq(s, 1, Len(s) - 1) ELSE s

RECURSIVE rstrip(_, _)
rstrip(s, ch) ==
    IF s # <<>> /\ s[Len(s)] = ch THEN rstrip(SubSeq(s, 1, Len(s) - 1), ch) ELSE s

Bearer(token) == <<"Bearer ", token>>

BedrockOpenAIClientSync(base_url, api_key) ==
    [constructed |-> TRUE,
     base_url |-> rstrip(base_url, "/"),
     headers |-> ("Content-Type" :> "application/json")
                 @@ ("Authorization" :> Bearer(api_key))]

BedrockOpenAIClient(base_url, aws_bearer_token) ==
    [constructed |-> TRUE,
     base_url |-> rstrip(base_url, "/"),
     headers |-> ("Content-Type" :> "application/json")
                 @@ ("Authorization" :> Bearer(aws_bearer_token))]

----------------------------------------------------------------------------
(* Request construction *)

ChatCompletionsPath == <<"/", "v1", "/", "chat", "/", "completions">>
ModelsPath == <<"/", "v1", "/", "models">>

SyncPayload(messages, model, temperature, max_tokens) ==
    [model |-> model, messages |-> messages,
     temperature |-> temperature, max_tokens |-> max_tokens]

AsyncPayload(messages, model, temperature, max_tokens, stream) ==
    [model |-> model, messages |-> messages,
     temperature |-> temperature, max_tokens |-> max_tokens, stream |-> stream]

\* client.post(url, headers=, json=, timeout=) and client.get(url, headers=, timeout=)
post(url, headers, json, timeout) ==
    [method |-> "POST", url |-> url, headers |-> headers, body |-> json,
     timeout |-> timeout]

get(url, headers, timeout) ==
    [method |-> "GET", url |-> url, headers |-> headers, body |-> NoBody,
     timeout |-> timeout]

SyncChatRequest(self, messages, model, temperature, max_tokens) ==
    post(self.base_url \o ChatCompletionsPath, self.headers,
         SyncPayload(messages, model, temperature, max_tokens), SyncChatTimeout)

SyncModelsRequest(self) ==
    get(self.base_url \o ModelsPath, self.headers, SyncModelsTimeout)

AsyncChatRequest(self, messages, model, temperature, max_tokens, stream) ==
    post(self.base_url \o ChatCompletionsPath, self.headers,
         AsyncPayload(messages, model, temperature, max_tokens, stream),
         AsyncChatTimeout)

\* Mutant of AsyncModelsRequest: the headers argument is left out of the GET.
AsyncModelsRequestNoAuth(self) ==
    get(self.base_url \o ModelsPath, ("Content-Type" :> "application/json"),
        AsyncModelsTimeout)

AsyncModelsRequest(self) ==
    get(self.base_url \o ModelsPath, self.headers, AsyncModelsTimeout)

----------------------------------------------------------------------------
(* Response handling: response.raise_for_status() then response.json() *)

is_success(status_code) == status_code >= 200 /\ status_code <= 299

\* A body is a JSON object when it is "{", member names, "}"; it decodes to
\* the mapping, kept here as the set of its member names.
JsonValid(text) ==
    /\ Len(text) >= 2
    /\ text[1] = "{"
    /\ text[Len(text)] = "}"
    /\ \A i \in 2..(Len(text) - 1) : text[i] \notin {"{", "}"}

loads(text) == {text[i] : i \in 2..(Len(text) - 1)}

\* Mutant of json: a body that does not parse yields an empty mapping.
jsonLenient(response) ==
    IF JsonValid(response.text)
    THEN [kind |-> "return", value |-> loads(response.text)]
    ELSE [kind |-> "return", value |-> {}]

json(response) ==
    IF JsonValid(response.text)
    THEN [kind |-> "return", value |-> loads(response.text)]
    ELSE [kind |-> "DecodeError"]

raise_for_status(response) ==
    IF is_success(response.status_code)
    THEN NoOutcome
    ELSE [kind |-> "HttpStatusError",
          status_code |-> response.status_code, text |-> response.text]

\* Mutant of RaiseThenJson: the body is parsed before the status is checked.
JsonThenRaise(response) ==
    IF json(response).kind # "return"
    THEN json(response)
    ELSE IF raise_for_status(response) # NoOutcome
         THEN raise_for_status(response)
         ELSE json(response)

\* The two statements after the request: raise_for_status(); return json()
RaiseThenJson(response) ==
    IF raise_for_status(response) # NoOutcome
    THEN raise_for_status(response)
    ELSE json(response)

\* What the awaited request produces: a response, or an exception of httpx
EventOutcome(event) ==
    CASE event.type = "response" ->
             RaiseThenJson([status_code |-> event.status_code, text |-> event.text])
      [] event.type = "timeout" -> [kind |-> "TransportError", cause |-> "timeout"]
      [] event.type = "network" -> [kind |-> "TransportError", cause |-> "network"]

EventResponse(event) ==
    IF event.type = "response"
    THEN [received |-> TRUE, status_code |-> event.status_code, text |-> event.text]
    ELSE NoResponse

----------------------------------------------------------------------------
(* The activation of one call *)

IdleCall ==
    [pc |-> "idle", kind |-> "none", op |-> "none", args |-> NoArgs,
     client |-> "none", requests |-> <<>>, elapsed |-> 0,
     response |-> NoResponse, outcome |-> NoOutcome]

\* Entering the with block opens the httpx client; the request is then sent
\* and the call waits for the transport.
Begin(kind, op, args, request) ==
    [pc |-> "awaiting", kind |-> kind, op |-> op, args |-> args,
     client |-> "open", requests |-> <<request>>, elapsed |-> 0,
     response |-> NoResponse, outcome |-> NoOutcome]

\* Mutant of SyncExit: a timed-out request is sent once more.
SyncExitRetry(call, event) ==
    IF event.type = "timeout" /\ Len(call.requests) < 2
    THEN [call EXCEPT !.requests = Append(@, @[1]), !.elapsed = 0]
    ELSE [call EXCEPT !.pc = "done", !.client = "closed",
                      !.response = EventResponse(event),
                      !.outcome = EventOutcome(event)]

\* The rest of "with httpx.Client() as client:" once the request has ended:
\* raise_for_status(), json(), and the context manager's exit on every path.
SyncExit(call, event) ==
    [call EXCEPT !.pc = "done", !.client = "closed",
                 !.response = EventResponse(event),
                 !.outcome = EventOutcome(event)]

\* Mutant of AsyncExit: the client is closed after json() returns, not by a
\* context manager, so an exception leaves it open.
AsyncExitLeak(call, event) ==
    [call EXCEPT !.pc = "done",
                 !.client = IF EventOutcome(event).kind = "return"
                            THEN "closed" ELSE "open",
                 !.response = EventResponse(event),
                 !.outcome = EventOutcome(event)]

\* The rest of "async with httpx.AsyncClient() as client:".
AsyncExit(call, event) ==
    [call EXCEPT !.pc = "done", !.client = "closed",
                 !.response = EventResponse(event),
                 !.outcome = EventOutcome(event)]

Resume(call, event) ==
    IF call.kind = "sync" THEN SyncExit(call, event) ELSE AsyncExit(call, event)

----------------------------------------------------------------------------
(* The four methods, up to the point where they wait for the transport *)

SyncChatCompletion(c, messages, model, temperature, max_tokens) ==
    /\ calls[c].pc = "idle"
    /\ clients["sync"].constructed
    /\ calls' = [calls EXCEPT ![c] =
           Begin("sync", "chat_completion",
                 [messages |-> messages, model |-> model,
                  temperature |-> temperature, max_tokens |-> max_tokens],
                 SyncChatRequest(clients["sync"], messages, model, temperature,
                                 max_tokens))]
    /\ open_clients' = open_clients + 1
    /\ UNCHANGED <<ctor, clients>>

SyncListModels(c) ==
    /\ calls[c].pc = "idle"
    /\ clients["sync"].constructed
    /\ calls' = [calls EXCEPT ![c] =
           Begin("sync", "list_models", NoArgs, SyncModelsRequest(clients["sync"]))]
    /\ open_clients' = open_clients + 1
    /\ UNCHANGED <<ctor, clients>>

\* Mutant of AsyncChatCompletion: a streaming call writes an Accept header
\* into the client's own headers mapping before sending.
AsyncChatCompletionSharedHeaders(c, messages, model, temperature, max_tokens, stream) ==
    /\ calls[c].pc = "idle"
    /\ clients["async"].constructed
    /\ clients' = [clients EXCEPT !["async"].headers =
           IF stream THEN ("Accept" :> "text/event-stream") @@ @ ELSE @]
    /\ calls' = [calls EXCEPT ![c] =
           Begin("async", "chat_completion",
                 [messages |-> messages, model |-> model,
                  temperature |-> temperature, max_tokens |-> max_tokens,
                  stream |-> stream],
                 AsyncChatRequest(clients'["async"], messages, model, temperature,
                                  max_tokens, stream))]
    /\ open_clients' = open_clients + 1
    /\ UNCHANGED ctor

AsyncChatCompletion(c, messages, model, temperature, max_tokens, stream) ==
    /\ calls[c].pc = "idle"
    /\ clients["async"].constructed
    /\ calls' = [calls EXCEPT ![c] =
           Begin("async", "chat_completion",
                 [messages |-> messages, model |-> model,
                  temperature |-> temperature, max_tokens |-> max_tokens,
                  stream |-> stream],
                 AsyncChatRequest(clients["async"], messages, model, temperature,
                                  max_tokens, stream))]
    /\ open_clients' = open_clients + 1
    /\ UNCHANGED <<ctor, clients>>

AsyncListModels(c) ==
    /\ calls[c].pc = "idle"
    /\ clients["async"].constructed
    /\ calls' = [calls EXCEPT ![c] =
           Begin("async", "list_models", NoArgs, AsyncModelsRequest(clients["async"]))]
    /\ open_clients' = open_clients + 1
    /\ UNCHANGED <<ctor, clients>>

----------------------------------------------------------------------------
(* The transport (httpx) while a call waits *)

TimedOut(call) == call.elapsed >= call.requests[1].timeout

Finish(c, event) ==
    /\ calls' = [calls EXCEPT ![c] = Resume(calls[c], event)]
    /\ open_clients' = IF calls'[c].client = "closed"
                       THEN open_clients - 1 ELSE open_clients
    /\ UNCHANGED <<ctor, clients, driver>>

\* Time passes with no answer.
Tick(c) ==
    /\ calls[c].pc = "awaiting"
    /\ ~TimedOut(calls[c])
    /\ calls' = [calls EXCEPT ![c].elapsed = @ + TickStep]
    /\ UNCHANGED <<ctor, clients, open_clients, driver>>

\* The server answers in time.
Respond(c, status_code, text) ==
    /\ calls[c].pc = "awaiting"
    /\ ~TimedOut(calls[c])
    /\ Finish(c, [type |-> "response", status_code |-> status_code, text |-> text])

\* Connection refused, DNS failure, broken connection.
NetworkError(c) ==
    /\ calls[c].pc = "awaiting"
    /\ ~TimedOut(calls[c])
    /\ Finish(c, [type |-> "network"])

\* The timeout given to httpx expires.
Timeout(c) ==
    /\ calls[c].pc = "awaiting"
    /\ TimedOut(calls[c])
    /\ Finish(c, [type |-> "timeout"])

\* The caller has the result (or the exception); the slot serves its next call.
NextCall(c) ==
    /\ calls[c].pc = "done"
    /\ calls' = [calls EXCEPT ![c] = IdleCall]
    /\ UNCHANGED <<ctor, clients, open_clients, driver>>

----------------------------------------------------------------------------
(* Spec: one caller using both clients, one call at a time *)

DriverOff == [kind |-> "none", pc |-> "off"]

Constructed(base_url, token) ==
    /\ ctor = [base_url |-> base_url, token |-> token]
    /\ clients = [k \in Kinds |->
                    IF k = "sync" THEN BedrockOpenAIClientSync(base_url, token)
                    ELSE BedrockOpenAIClient(base_url, token)]
    /\ calls = [c \in CallIds |-> IdleCall]
    /\ open_clients = 0
    /\ driver = DriverOff

Init == \E base_url \in BaseUrls, token \in Tokens : Constructed(base_url, token)

\* A method called by a caller other than main.
CallSyncChatCompletion(c, messages, model, temperature, max_tokens) ==
    SyncChatCompletion(c, messages, model, temperature, max_tokens) /\ UNCHANGED driver

CallSyncListModels(c) == SyncListModels(c) /\ UNCHANGED driver

CallAsyncChatCompletion(c, messages, model, temperature, max_tokens, stream) ==
    AsyncChatCompletion(c, messages, model, temperature, max_tokens, stream)
    /\ UNCHANGED driver

CallAsyncListModels(c) == AsyncListModels(c) /\ UNCHANGED driver

Next ==
    \/ \E m \in MessageLists, model \in Models, t \in Temperatures, n \in MaxTokens :
           CallSyncChatCompletion(1, m, model, t, n)
    \/ CallSyncListModels(1)
    \/ \E m \in MessageLists, model \in Models, t \in Temperatures, n \in MaxTokens,
          stream \in BOOLEAN : CallAsyncChatCompletion(1, m, model, t, n, stream)
    \/ CallAsyncListModels(1)
    \/ Tick(1)
    \/ \E s \in Statuses, text \in Texts : Respond(1, s, text)
    \/ NetworkError(1)
    \/ Timeout(1)
    \/ NextCall(1)

Spec == Init /\ [][Next]_vars

----------------------------------------------------------------------------
(* SpecPair: two calls in flight at once, on the same client or one on each *)

PairBaseUrls == {<<"a">>, <<"a", "/">>}
PairMessageLists ==
    {<<[role |-> "user", content |-> "u"]>>,
     <<[role |-> "system", content |-> "s"], [role |-> "user", content |-> "u"]>>}
PairStatuses == {200, 401}
PairTexts == {<<"{", "choices", "}">>, <<"{", "choices">>}
PairCalls == {1, 2}

InitPair == \E base_url \in PairBaseUrls, token \in Tokens : Constructed(base_url, token)

NextPair ==
    \/ \E c \in PairCalls, m \in PairMessageLists, model \in Models :
           CallSyncChatCompletion(c, m, model, 7, 1000)
    \/ \E c \in PairCalls : CallSyncListModels(c)
    \/ \E c \in PairCalls, m \in PairMessageLists, model \in Models,
          stream \in BOOLEAN : CallAsyncChatCompletion(c, m, model, 7, 1000, stream)
    \/ \E c \in PairCalls : CallAsyncListModels(c)
    \/ \E c \in PairCalls : Tick(c)
    \/ \E c \in PairCalls, s \in PairStatuses, text \in PairTexts : Respond(c, s, text)
    \/ \E c \in PairCalls : NetworkError(c)
    \/ \E c \in PairCalls : Timeout(c)
    \/ \E c \in PairCalls : NextCall(c)

SpecPair == InitPair /\ [][NextPair]_vars

----------------------------------------------------------------------------
(* main() of the two example scripts *)

Unset == [set |-> FALSE]
Set(v) == [set |-> TRUE, value |-> v]

\* os.getenv(name, default)
getenv(value, default) == IF value.set THEN value.value ELSE default

SyncDefaultBaseUrl == <<"https:", "/", "/", "openai.ez2.click", "/", "dev">>
AsyncDefaultBaseUrl == <<"https:", "/", "/", "openai.ez2.click", "/">>

BASE_URL(d) ==
    getenv(d.env.BEDROCK_OPENAI_BASE_URL,
           IF d.kind = "sync" THEN SyncDefaultBaseUrl ELSE AsyncDefaultBaseUrl)

AWS_BEARER_TOKEN(d) == getenv(d.env.AWS_BEARER_TOKEN_BEDROCK, PLACEHOLDER)

SyncSimpleMessages ==
    <<[role |-> "user",
       content |-> "What is AWS Bedrock? Please explain in 2 sentences."]>>

SyncConversation ==
    <<[role |-> "system", content |-> "You are a helpful AWS expert."],
      [role |-> "user", content |-> "What is AWS Bedrock?"],
      [role |-> "assistant",
       content |-> "AWS Bedrock is a fully managed service that offers foundation models from leading AI companies through a single API."],
      [role |-> "user", content |-> "What are its main benefits?"]>>

AsyncSimpleMessages ==
    <<[role |-> "user", content |-> "Hello! Can you tell me about AWS Bedrock?"]>>

AsyncMessagesWithSystem ==
    <<[role |-> "system", content |-> "You are a helpful AWS expert assistant."],
      [role |-> "user",
       content |-> "What are the benefits of using AWS Bedrock?"]>>

AsyncVisionMessages ==
    <<[role |-> "user",
       content |-> <<[type |-> "text", text |-> "What do you see in this image?"],
                     [type |-> "image_url",
                      image_url |-> [url |-> "data:image/jpeg;base64,/9j/4AAQ..."]]>>]>>

\* Mutant of OuterTry: the failure is printed and main goes on to the next example.
OuterTryContinue(d, outcome, keys, next) ==
    IF outcome.kind = "return" /\ keys \subseteq outcome.value
    THEN [d EXCEPT !.pc = next]
    ELSE IF outcome.kind = "HttpStatusError"
         THEN [d EXCEPT !.pc = next, !.printed = "http_error"]
         ELSE [d EXCEPT !.pc = next, !.printed = "error"]

\* The outer try block after a call has ended: the prints that follow the
\* call read keys of the returned mapping (KeyError when one is missing);
\* HTTPStatusError and every other exception end main.
OuterTry(d, outcome, keys, next) ==
    IF outcome.kind = "return" /\ keys \subseteq outcome.value
    THEN [d EXCEPT !.pc = next]
    ELSE IF outcome.kind = "HttpStatusError"
         THEN [d EXCEPT !.pc = "returned", !.printed = "http_error"]
         ELSE [d EXCEPT !.pc = "returned", !.printed = "error"]

\* The inner try block around the vision example: every exception is printed.
InnerTry(d, outcome, keys) ==
    IF outcome.kind = "return" /\ keys \subseteq outcome.value
    THEN [d EXCEPT !.pc = "returned", !.printed = "finished"]
    ELSE [d EXCEPT !.pc = "returned", !.printed = "vision_error"]

MainConfigError ==
    /\ driver.pc = "start"
    /\ AWS_BEARER_TOKEN(driver) = PLACEHOLDER
    /\ driver' = [driver EXCEPT !.pc = "returned", !.printed = "config"]
    /\ UNCHANGED <<ctor, clients, calls, open_clients>>

MainConstruct ==
    /\ driver.pc = "start"
    /\ AWS_BEARER_TOKEN(driver) # PLACEHOLDER
    /\ ctor' = [base_url |-> BASE_URL(driver), token |-> AWS_BEARER_TOKEN(driver)]
    /\ clients' = [clients EXCEPT ![driver.kind] =
           IF driver.kind = "sync"
           THEN BedrockOpenAIClientSync(BASE_URL(driver), AWS_BEARER_TOKEN(driver))
           ELSE BedrockOpenAIClient(BASE_URL(driver), AWS_BEARER_TOKEN(driver))]
    /\ driver' = [driver EXCEPT !.pc = "example1"]
    /\ UNCHANGED <<calls, open_clients>>

MainExample1 ==
    /\ driver.pc = "example1"
    /\ IF driver.kind = "sync" THEN SyncListModels(1) ELSE AsyncListModels(1)
    /\ driver' = [driver EXCEPT !.pc = "await1"]

MainAfter1 ==
    /\ driver.pc = "await1"
    /\ calls[1].pc = "done"
    /\ driver' = OuterTry(driver, calls[1].outcome, {}, "example2")
    /\ UNCHANGED <<ctor, clients, calls, open_clients>>

MainExample2 ==
    /\ driver.pc = "example2"
    /\ IF driver.kind = "sync"
       THEN SyncChatCompletion(2, SyncSimpleMessages, "gpt-3.5-turbo", 7, 200)
       ELSE AsyncChatCompletion(2, AsyncSimpleMessages, "gpt-3.5-turbo", 7, 500, FALSE)
    /\ driver' = [driver EXCEPT !.pc = "await2"]

MainAfter2 ==
    /\ driver.pc = "await2"
    /\ calls[2].pc = "done"
    /\ driver' = OuterTry(driver, calls[2].outcome, {"choices", "usage"}, "example3")
    /\ UNCHANGED <<ctor, clients, calls, open_clients>>

MainExample3 ==
    /\ driver.pc = "example3"
    /\ IF driver.kind = "sync"
       THEN SyncChatCompletion(3, SyncConversation, "gpt-4", 5, 300)
       ELSE AsyncChatCompletion(3, AsyncMessagesWithSystem, "gpt-4", 5, 300, FALSE)
    /\ driver' = [driver EXCEPT !.pc = "await3"]

MainAfter3 ==
    /\ driver.pc = "await3"
    /\ calls[3].pc = "done"
    /\ driver' = IF driver.kind = "sync"
                 THEN [OuterTry(driver, calls[3].outcome, {"choices"}, "returned")
                          EXCEPT !.printed =
                              IF @ = "none" THEN "finished" ELSE @]
                 ELSE OuterTry(driver, calls[3].outcome, {"choices"}, "example4")
    /\ UNCHANGED <<ctor, clients, calls, open_clients>>

MainExample4 ==
    /\ driver.pc = "example4"
    /\ driver.kind = "async"
    /\ AsyncChatCompletion(4, AsyncVisionMessages, "claude-3-sonnet", 5, 300, FALSE)
    /\ driver' = [driver EXCEPT !.pc = "await4"]

MainAfter4 ==
    /\ driver.pc = "await4"
    /\ calls[4].pc = "done"
    /\ driver' = InnerTry(driver, calls[4].outcome, {"choices"})
    /\ UNCHANGED <<ctor, clients, calls, open_clients>>

NoCtor == [constructed |-> FALSE]

MainBaseUrls == {Unset, Set(<<"a", "/">>)}
MainTokens == {Unset, Set(PLACEHOLDER)} \cup {Set(t) : t \in Tokens}

InitMain ==
    /\ ctor = NoCtor
    /\ clients = [k \in Kinds |-> NoClient]
    /\ calls = [c \in CallIds |-> IdleCall]
    /\ open_clients = 0
    /\ \E kind \in Kinds, base_url \in MainBaseUrls, token \in MainTokens :
          driver = [kind |-> kind, pc |-> "start", printed |-> "none",
                    env |-> [BEDROCK_OPENAI_BASE_URL |-> base_url,
                             AWS_BEARER_TOKEN_BEDROCK |-> token]]

NextMain ==
    \/ MainConfigError
    \/ MainConstruct
    \/ MainExample1
    \/ MainAfter1
    \/ MainExample2
    \/ MainAfter2
    \/ MainExample3
    \/ MainAfter3
    \/ MainExample4
    \/ MainAfter4
    \/ \E c \in CallIds : Tick(c)
    \/ \E c \in CallIds, s \in Statuses, text \in Texts : Respond(c, s, text)
    \/ \E c \in CallIds : NetworkError(c)
    \/ \E c \in CallIds : Timeout(c)

SpecMain == InitMain /\ [][NextMain]_vars

----------------------------------------------------------------------------
(* Properties of a single call, checked under Spec *)

Issued(c) == calls[c].pc # "idle"
Done(c) == calls[c].pc = "done"
Request(c) == calls[c].requests[1]
Self(c) == clients[calls[c].kind]
IsChat(c) == Issued(c) /\ calls[c].op = "chat_completion"
IsModels(c) == Issued(c) /\ calls[c].op = "list_models"
Answered(c) == Done(c) /\ calls[c].response.received

FourFields == {"model", "messages", "temperature", "max_tokens"}
FiveFields == FourFields \cup {"stream"}

OnePostOf(c) ==
    /\ Len(calls[c].requests) = 1
    /\ Request(c).method = "POST"
    /\ Request(c).url = Self(c).base_url \o <<"/", "v1", "/", "chat", "/", "completions">>
    /\ FourFields \subseteq DOMAIN Request(c).body
    /\ Request(c).body.model = calls[c].args.model
    /\ Request(c).body.messages = calls[c].args.messages
    /\ Request(c).body.temperature = calls[c].args.temperature
    /\ Request(c).body.max_tokens = calls[c].args.max_tokens

\* C1: every chat_completion call with a non-empty message list, of
\* the synchronous and of the asynchronous client alike, has issued exactly
\* one POST to {base_url}/v1/chat/completions whose JSON body holds the five
\* fields model, messages, temperature, max_tokens and stream, the messages
\* in the caller's order.
C1_FiveFieldsBothClients ==
    \A c \in CallIds :
        (IsChat(c) /\ calls[c].args.messages # <<>>) =>
            /\ OnePostOf(c)
            /\ DOMAIN Request(c).body = FiveFields

\* What holds of both clients instead: every chat_completion call with a
\* non-empty message list has issued exactly one POST to
\* {base_url}/v1/chat/completions with the caller's model, messages (in
\* order), temperature and max_tokens; the body of the asynchronous client
\* holds these four and stream, the body of the synchronous client holds
\* exactly these four and no stream field.
PostBodyPerClient ==
    \A c \in CallIds :
        (IsChat(c) /\ calls[c].args.messages # <<>>) =>
            /\ OnePostOf(c)
            /\ calls[c].kind = "async" =>
                   /\ DOMAIN Request(c).body = FiveFields
                   /\ Request(c).body.stream = calls[c].args.stream
            /\ calls[c].kind = "sync" => DOMAIN Request(c).body = FourFields

\* C2: a call (chat_completion or list_models) answered with a status outside
\* 200..299 ends in HttpStatusError carrying that status and the raw body,
\* whatever the body is: nothing is returned and the body is not parsed first.
C2_NonSuccessRaises ==
    \A c \in CallIds :
        (Answered(c) /\ calls[c].response.status_code \notin 200..299) =>
            calls[c].outcome = [kind |-> "HttpStatusError",
                                status_code |-> calls[c].response.status_code,
                                text |-> calls[c].response.text]

C2_Witness ==
    \E c \in CallIds :
        /\ Answered(c) /\ IsModels(c)
        /\ calls[c].response.status_code = 401
        /\ calls[c].response.text = <<"{", "choices">>
        /\ calls[c].outcome.kind = "HttpStatusError"
        /\ calls[c].outcome.status_code = 401

\* The bodies that are JSON documents, with what they decode to.
Decoding ==
    (<<"{", "choices", "usage", "}">> :> {"choices", "usage"})
    @@ (<<"{", "choices", "}">> :> {"choices"})

\* C3: a chat_completion call answered with a 2xx status ends in DecodeError
\* when the body is not valid JSON, and returns exactly the decoded body when
\* it is.
C3_DecodeOrReturn ==
    \A c \in CallIds :
        (Answered(c) /\ IsChat(c) /\ calls[c].response.status_code \in 200..299) =>
            IF calls[c].response.text \in DOMAIN Decoding
            THEN calls[c].outcome =
                     [kind |-> "return", value |-> Decoding[calls[c].response.text]]
            ELSE calls[c].outcome = [kind |-> "DecodeError"]

C3_Witness ==
    \E c \in CallIds :
        /\ Answered(c) /\ IsChat(c)
        /\ calls[c].response.status_code = 200
        /\ calls[c].response.text = <<"{", "choices">>
        /\ calls[c].outcome.kind = "DecodeError"

ConfiguredTimeout(c) == IF calls[c].op = "chat_completion" THEN 30 ELSE 10

\* C4: a call whose transport has not answered within the timeout (30 for
\* chat_completion, 10 for list_models), or fails at the network level, ends
\* in TransportError; and whatever the outcome, the call has sent exactly one
\* request: no retry, no local recovery.
C4_TransportErrorNoRetry ==
    \A c \in CallIds :
        /\ Issued(c) => /\ Len(calls[c].requests) = 1
                        /\ Request(c).timeout = ConfiguredTimeout(c)
        /\ ~Issued(c) => calls[c].requests = <<>>
        /\ Answered(c) => calls[c].elapsed < ConfiguredTimeout(c)
        /\ (Done(c) /\ calls[c].elapsed >= ConfiguredTimeout(c)) =>
               calls[c].outcome.kind = "TransportError"
        /\ (Done(c) /\ ~calls[c].response.received) =>
               calls[c].outcome.kind = "TransportError"
        /\ Done(c) => calls[c].outcome.kind \in
               {"return", "HttpStatusError", "TransportError", "DecodeError"}

C4_Witness ==
    \E c \in CallIds :
        /\ Done(c) /\ IsChat(c) /\ calls[c].kind = "sync"
        /\ calls[c].elapsed >= 30
        /\ calls[c].outcome = [kind |-> "TransportError", cause |-> "timeout"]
        /\ Len(calls[c].requests) = 1

Slashes(n) == [i \in 1..n |-> "/"]

NoTrailingSlash(s) == s = <<>> \/ s[Len(s)] # "/"

\* C6: the stored base_url is the constructor's base URL without its trailing
\* slashes (none, one or several), every request URL is base_url, one "/" and
\* the path, and constructing from a stored base_url stores it unchanged.
C6_BaseUrlNormalized ==
    /\ \A k \in Kinds :
          /\ NoTrailingSlash(clients[k].base_url)
          /\ \E n \in 0..Len(ctor.base_url) :
                 ctor.base_url = clients[k].base_url \o Slashes(n)
          /\ BedrockOpenAIClientSync(clients[k].base_url, ctor.token).base_url
                 = clients[k].base_url
          /\ BedrockOpenAIClient(clients[k].base_url, ctor.token).base_url
                 = clients[k].base_url
    /\ \A c \in CallIds :
          Issued(c) =>
              LET b == Len(Self(c).base_url)
                  url == Request(c).url
              IN /\ SubSeq(url, 1, b) = Self(c).base_url
                 /\ SubSeq(url, b + 1, b + 2) = <<"/", "v1">>
                 /\ b > 0 => url[b] # "/"
                 /\ SubSeq(url, b + 1, Len(url)) \in
                        {<<"/", "v1", "/", "models">>,
                         <<"/", "v1", "/", "chat", "/", "completions">>}

C6_Witness ==
    /\ ctor.base_url = <<"a", "/", "/">>
    /\ \E c \in CallIds :
          /\ IsModels(c)
          /\ Request(c).url = <<"a", "/", "v1", "/", "models">>

\* C7: the httpx client object a call opens is closed when the call ends, on
\* every exit path: the open client objects are exactly those of the calls
\* still waiting for the transport.
C7_ClientsReleased ==
    /\ open_clients = Cardinality({c \in CallIds : calls[c].pc = "awaiting"})
    /\ \A c \in CallIds :
          /\ Done(c) => calls[c].client = "closed"
          /\ calls[c].pc = "awaiting" => calls[c].client = "open"
          /\ calls[c].pc = "idle" => calls[c].client = "none"

C7_Witness ==
    /\ open_clients = 0
    /\ \E c \in CallIds :
          /\ Done(c) /\ calls[c].kind = "async"
          /\ calls[c].outcome.kind = "DecodeError"
          /\ calls[c].client = "closed"

----------------------------------------------------------------------------
(* Properties of two calls, checked under SpecPair *)

\* C5: a list_models call has issued exactly one GET to {base_url}/v1/models
\* with no request body, and its Authorization header is "Bearer <token>" for
\* the token given at construction, the same value a chat_completion call on
\* the same client sends.
C5_ModelsGetSameAuthorization ==
    /\ \A c \in CallIds :
          IsModels(c) =>
              /\ Len(calls[c].requests) = 1
              /\ Request(c).method = "GET"
              /\ Request(c).url = Self(c).base_url \o <<"/", "v1", "/", "models">>
              /\ Request(c).body = <<>>
              /\ "Authorization" \in DOMAIN Request(c).headers
              /\ Request(c).headers["Authorization"] = <<"Bearer ", ctor.token>>
    /\ \A c, d \in CallIds :
          (IsModels(c) /\ IsChat(d) /\ calls[c].kind = calls[d].kind) =>
              /\ "Authorization" \in DOMAIN Request(c).headers
              /\ "Authorization" \in DOMAIN Request(d).headers
              /\ Request(c).headers["Authorization"]
                     = Request(d).headers["Authorization"]

C5_Witness ==
    \E c, d \in CallIds :
        /\ IsModels(c) /\ IsChat(d)
        /\ calls[c].kind = "async" /\ calls[d].kind = "async"
        /\ Request(c).headers["Authorization"] = <<"Bearer ", "bedrock-api-key-WFla">>

CommonArgs(c) ==
    IF calls[c].op = "chat_completion"
    THEN [f \in FourFields |-> calls[c].args[f]]
    ELSE <<>>

\* The same call made on the synchronous client (c) and the asynchronous one (d)
Twins(c, d) ==
    /\ Issued(c) /\ calls[c].kind = "sync"
    /\ Issued(d) /\ calls[d].kind = "async"
    /\ calls[c].op = calls[d].op
    /\ CommonArgs(c) = CommonArgs(d)

SameAnswer(c, d) ==
    /\ Done(c) /\ Done(d)
    /\ calls[c].response = calls[d].response
    /\ (calls[c].elapsed >= ConfiguredTimeout(c))
           <=> (calls[d].elapsed >= ConfiguredTimeout(d))

\* C8: for the same base URL, token, arguments and transport answer
\* the two clients send the same method, URL, headers, request body and
\* timeout, and end in the same outcome.
C8_IdenticalRequests ==
    \A c, d \in CallIds :
        Twins(c, d) =>
            /\ Request(c) = Request(d)
            /\ SameAnswer(c, d) => calls[c].outcome = calls[d].outcome

\* What holds of the two clients instead: they send the same method, URL,
\* headers and timeout and end in the same outcome; list_models sends no body
\* in either; the chat_completion bodies agree on model, messages,
\* temperature and max_tokens, and the asynchronous body alone has the
\* stream field.
SameContractButStream ==
    \A c, d \in CallIds :
        Twins(c, d) =>
            /\ Request(c).method = Request(d).method
            /\ Request(c).url = Request(d).url
            /\ Request(c).headers = Request(d).headers
            /\ Request(c).timeout = Request(d).timeout
            /\ calls[c].op = "list_models" => Request(c).body = Request(d).body
            /\ calls[c].op = "chat_completion" =>
                   /\ DOMAIN Request(c).body = FourFields
                   /\ DOMAIN Request(d).body = FourFields \cup {"stream"}
                   /\ \A f \in FourFields : Request(c).body[f] = Request(d).body[f]
            /\ SameAnswer(c, d) => calls[c].outcome = calls[d].outcome

\* The outcome a call has when it is the only call, from its own answer.
OutcomeAlone(c) ==
    IF ~calls[c].response.received
    THEN [kind |-> "TransportError",
          cause |-> IF calls[c].elapsed >= ConfiguredTimeout(c)
                    THEN "timeout" ELSE "network"]
    ELSE IF calls[c].response.status_code \notin 200..299
    THEN [kind |-> "HttpStatusError",
          status_code |-> calls[c].response.status_code,
          text |-> calls[c].response.text]
    ELSE IF calls[c].response.text \in DOMAIN Decoding
    THEN [kind |-> "return", value |-> Decoding[calls[c].response.text]]
    ELSE [kind |-> "DecodeError"]

\* The request a call sends when it is the only call on a new client.
RequestAlone(c) ==
    LET sync == BedrockOpenAIClientSync(ctor.base_url, ctor.token)
        async == BedrockOpenAIClient(ctor.base_url, ctor.token)
        a == calls[c].args
    IN CASE calls[c].kind = "sync" /\ calls[c].op = "chat_completion" ->
               SyncChatRequest(sync, a.messages, a.model, a.temperature, a.max_tokens)
         [] calls[c].kind = "sync" /\ calls[c].op = "list_models" ->
               SyncModelsRequest(sync)
         [] calls[c].kind = "async" /\ calls[c].op = "chat_completion" ->
               AsyncChatRequest(async, a.messages, a.model, a.temperature,
                                a.max_tokens, a.stream)
         [] calls[c].kind = "async" /\ calls[c].op = "list_models" ->
               AsyncModelsRequest(async)

\* C9: base_url and headers of both clients stay what the constructor made
\* them through every call and outcome, and under every interleaving of two
\* calls each call's request and outcome are those it has when run alone.
C9_CallsIndependent ==
    /\ clients["sync"] = BedrockOpenAIClientSync(ctor.base_url, ctor.token)
    /\ clients["async"] = BedrockOpenAIClient(ctor.base_url, ctor.token)
    /\ \A c \in CallIds :
          /\ Issued(c) => calls[c].requests = <<RequestAlone(c)>>
          /\ Done(c) => calls[c].outcome = OutcomeAlone(c)

C9_Witness ==
    \E c, d \in CallIds :
        /\ c # d
        /\ calls[c].kind = "async" /\ calls[d].kind = "async"
        /\ IsChat(c) /\ calls[c].args.stream /\ Done(c)
        /\ calls[c].outcome.kind = "HttpStatusError"
        /\ calls[d].pc = "awaiting" /\ calls[d].elapsed > 0

----------------------------------------------------------------------------
(* Properties of main, checked under SpecMain *)

NoRealToken ==
    \/ ~driver.env.AWS_BEARER_TOKEN_BEDROCK.set
    \/ driver.env.AWS_BEARER_TOKEN_BEDROCK.value = PLACEHOLDER

\* C10: without a real token main reports the configuration error and returns
\* with no client constructed and no request sent; with a real token the
\* first request is the list_models GET, and after a call of the outer try
\* block has failed no later request is sent.
C10_DriverOrder ==
    /\ NoRealToken =>
          /\ \A k \in Kinds : clients[k] = NoClient
          /\ \A c \in CallIds : ~Issued(c)
          /\ driver.pc \in {"start", "returned"}
          /\ driver.pc = "returned" => driver.printed = "config"
    /\ ~NoRealToken =>
          /\ driver.printed # "config"
          /\ \A c \in CallIds :
                Issued(c) =>
                    /\ Issued(1)
                    /\ Request(1).method = "GET"
                    /\ Request(1).url =
                           clients[driver.kind].base_url \o <<"/", "v1", "/", "models">>
          /\ \A i \in {1, 2, 3} : \A j \in CallIds :
                (j > i /\ Done(i) /\ calls[i].outcome.kind # "return") => ~Issued(j)
          /\ driver.printed \in {"http_error", "error"} =>
                /\ driver.pc = "returned"
                /\ \A c \in CallIds : calls[c].pc # "awaiting"
          /\ \A j \in CallIds : (Issued(j) /\ j > 1) => \A i \in 1..(j - 1) :
                /\ Done(i)
                /\ calls[i].outcome.kind = "return"

C10_Witness ==
    /\ ~NoRealToken
    /\ driver.kind = "async"
    /\ driver.pc = "returned"
    /\ driver.printed = "http_error"
    /\ Done(1) /\ calls[1].outcome.kind = "return"
    /\ Done(2) /\ calls[2].outcome.kind = "HttpStatusError"
    /\ ~Issued(3) /\ ~Issued(4)

====
